---- MODULE Spec2Model ----
(***************************************************************************)
(* Model of src/bot.py: a Discord bot that relays messages to an n8n      *)
(* webhook, with per-channel routing configuration kept in Firestore.     *)
(*                                                                         *)
(* Four specifications share the definitions below:                       *)
(*   Spec         the bot: one message-handling task (on_message) and one *)
(*                slash-command task, interleaved at their await points;  *)
(*   SpecStore    the Firestore helper functions (lines 52-93) called in  *)
(*                arbitrary order with arbitrary arguments;               *)
(*   SpecPayload  on_message alone, over a rich set of message texts;     *)
(*   SpecCommands the slash commands alone, with the history of their     *)
(*                writes recorded.                                        *)
(*                                                                         *)
(* Text is a sequence of one-character strings.  None (Python) is the     *)
(* string "None" for URLs and 0 for a missing guild.                      *)
(***************************************************************************)
EXTENDS Integers, Sequences, FiniteSets, TLC

VARIABLES
    db,                  \* TRUE iff the module-level Firestore handle is not None
    WEBHOOK_URL,         \* the global URL read from the environment, or None
    store,               \* Firestore collection "discord_webhooks": doc id -> document
    message,             \* the message the on_message task is handling
    m_pc,                \* position of the on_message task
    channel_webhook_url, \* on_message's local of that name (line 127/129)
    log,                 \* what the current on_message run did, in order
    interaction,         \* the interaction the command task is handling
    c_pc,                \* position of the command task
    existing_webhook,    \* remove's local of that name (line 235)
    replies,             \* interaction.response.send_message calls of the current command
    calls,               \* store helper functions the current command has called, in order
    ret,                 \* SpecStore: the last helper call and what it returned
    expected,            \* SpecStore: per (guild, channel), the URL last set, or None after delete
    history              \* SpecCommands: per (guild, channel), the last setup/remove that
                         \* reported success and the last write that reached the collection

vars == <<db, WEBHOOK_URL, store, message, m_pc, channel_webhook_url, log,
          interaction, c_pc, existing_webhook, replies, calls, ret, expected, history>>

msgVars   == <<message, m_pc, channel_webhook_url, log>>
cmdVars   == <<interaction, c_pc, existing_webhook, replies, calls>>
storeVars == <<ret, expected, history>>

-----------------------------------------------------------------------------
(* Bounds and identities                                                   *)

\* longest message text, counted in parts of MessageParts
MaxParts == 3

None == "None"
NoGuild == 0

\* bot.user.id and the id of some other user
BotId == 7
OtherId == 8

\* the id of the direct-message channel
DMChannelId == 5

\* (guild id, channel id) of the server channels; guild 1 has two channels
Places == {<<1, 12>>, <<1, 3>>, <<11, 2>>}
GuildIds == {p[1] : p \in Places}

\* the channels that messages and commands of Spec come from
BotPlaces == {<<1, 12>>, <<11, 2>>}

\* the global URL of this run, and a URL written by an earlier run of the
\* bot whose environment named another WEBHOOK_URL
GlobalURL == "https://x/global"
LegacyURL == "https://x/h1"
URLs == {GlobalURL, LegacyURL}

-----------------------------------------------------------------------------
(* str() of a non-negative integer, as Python formats it in an f-string    *)

Digit(d) == <<"0", "1", "2", "3", "4", "5", "6", "7", "8", "9">>[d + 1]

RECURSIVE Str(_)
Str(n) == IF n < 10 THEN <<Digit(n)>> ELSE Str(n \div 10) \o <<Digit(n % 10)>>

-----------------------------------------------------------------------------
(* Firestore helper functions, lines 52-93.  Each takes the collection as  *)
(* its first argument; the writers return the collection after the write.  *)

NoRef == <<>>

\* the same reference built without the "-" separator
get_channel_webhook_ref_NoSeparator(guild_id, channel_id) ==
    IF db THEN Str(guild_id) \o Str(channel_id) ELSE NoRef

\* a reference built whether or not db is None
get_channel_webhook_ref_IgnoresDb(guild_id, channel_id) ==
    Str(guild_id) \o <<"-">> \o Str(channel_id)

\* lines 52-56: the document id f"{guild_id}-{channel_id}", or None without db
get_channel_webhook_ref(guild_id, channel_id) ==
    IF db THEN Str(guild_id) \o <<"-">> \o Str(channel_id) ELSE NoRef

\* the document with the two ids exchanged
WebhookDoc_Swapped(guild_id, channel_id, webhook_url) ==
    [webhook_url |-> webhook_url, guild_id |-> Str(channel_id), channel_id |-> Str(guild_id)]

\* line 62: the document written by ref.set
WebhookDoc(guild_id, channel_id, webhook_url) ==
    [webhook_url |-> webhook_url, guild_id |-> Str(guild_id), channel_id |-> Str(channel_id)]

\* a new document added when the channel already has one (collection.add
\* in place of ref.set)
set_channel_webhook_AddsDocument(s, guild_id, channel_id, webhook_url) ==
    LET ref == get_channel_webhook_ref(guild_id, channel_id)
        new == IF ref \in DOMAIN s THEN ref \o <<"+">> ELSE ref IN
    IF ref # NoRef
    THEN [store |-> [k \in DOMAIN s \cup {new} |->
                        IF k = new THEN WebhookDoc(guild_id, channel_id, webhook_url) ELSE s[k]],
          result |-> TRUE]
    ELSE [store |-> s, result |-> FALSE]

\* lines 58-64
set_channel_webhook(s, guild_id, channel_id, webhook_url) ==
    LET ref == get_channel_webhook_ref(guild_id, channel_id) IN
    IF ref # NoRef
    THEN [store |-> [k \in DOMAIN s \cup {ref} |->
                        IF k = ref THEN WebhookDoc(guild_id, channel_id, webhook_url) ELSE s[k]],
          result |-> TRUE]
    ELSE [store |-> s, result |-> FALSE]

\* lines 66-73
get_channel_webhook(s, guild_id, channel_id) ==
    LET ref == get_channel_webhook_ref(guild_id, channel_id) IN
    IF ref # NoRef /\ ref \in DOMAIN s THEN s[ref].webhook_url ELSE None

\* a delete that reports success and leaves the document
delete_channel_webhook_NoOp(s, guild_id, channel_id) ==
    LET ref == get_channel_webhook_ref(guild_id, channel_id) IN
    IF ref # NoRef
    THEN [store |-> s, result |-> TRUE]
    ELSE [store |-> s, result |-> FALSE]

\* lines 75-81
delete_channel_webhook(s, guild_id, channel_id) ==
    LET ref == get_channel_webhook_ref(guild_id, channel_id) IN
    IF ref # NoRef
    THEN [store |-> [k \in DOMAIN s \ {ref} |-> s[k]], result |-> TRUE]
    ELSE [store |-> s, result |-> FALSE]

\* the same query without the where clause
get_all_guild_webhooks_NoFilter(s, guild_id) ==
    IF db THEN {s[k] : k \in DOMAIN s} ELSE {}

\* lines 83-93: the documents whose guild_id field equals str(guild_id)
get_all_guild_webhooks(s, guild_id) ==
    IF db THEN {s[k] : k \in {d \in DOMAIN s : s[d].guild_id = Str(guild_id)}} ELSE {}

EmptyStore == [k \in {} |-> WebhookDoc(0, 0, None)]

\* history when the bot starts: a document found in the collection was
\* written by a setup of an earlier run that reported success
HistoryOf(s) ==
    [p \in Places |->
        IF \E k \in DOMAIN s : s[k].guild_id = Str(p[1]) /\ s[k].channel_id = Str(p[2])
        THEN [reported |-> "setup", written |-> "set", sets |-> 1]
        ELSE [reported |-> "none", written |-> "none", sets |-> 0]]

\* a collection holding one document left by an earlier run
LegacyStore == [k \in {Str(1) \o <<"-">> \o Str(12)} |-> WebhookDoc(1, 12, LegacyURL)]

-----------------------------------------------------------------------------
(* Message text                                                            *)

\* line 138: f"<@{bot.user.id}>"
mention_text == <<"<", "@">> \o Str(BotId) \o <<">">>

OtherMention == <<"<", "@">> \o Str(OtherId) \o <<">">>

IsPrefix(p, s) == Len(p) <= Len(s) /\ SubSeq(s, 1, Len(p)) = p

\* str.replace(old, ""), first occurrence only (count=1)
RECURSIVE ReplaceFirst(_, _)
ReplaceFirst(s, old) ==
    IF Len(s) < Len(old) THEN s
    ELSE IF IsPrefix(old, s) THEN SubSeq(s, Len(old) + 1, Len(s))
    ELSE <<Head(s)>> \o ReplaceFirst(Tail(s), old)

\* str.replace(old, ""): every non-overlapping occurrence, scanning left to right
RECURSIVE Replace(_, _)
Replace(s, old) ==
    IF Len(s) < Len(old) THEN s
    ELSE IF IsPrefix(old, s) THEN Replace(SubSeq(s, Len(old) + 1, Len(s)), old)
    ELSE <<Head(s)>> \o Replace(Tail(s), old)

\* str.strip(): leading and trailing whitespace removed
RECURSIVE LStrip(_)
LStrip(s) == IF s # <<>> /\ Head(s) = " " THEN LStrip(Tail(s)) ELSE s

RECURSIVE RStrip(_)
RStrip(s) == IF s # <<>> /\ s[Len(s)] = " " THEN RStrip(SubSeq(s, 1, Len(s) - 1)) ELSE s

Strip(s) == RStrip(LStrip(s))

\* only the first occurrence of the token removed
clean_content_FirstOnly(content) == Strip(ReplaceFirst(content, mention_text))

\* line 139: message.content.replace(mention_text, "").strip()
clean_content(content) == Strip(Replace(content, mention_text))

\* the pieces message texts are built from
MessageParts == {mention_text, OtherMention, <<" ">>, <<"a">>, <<"<", "@">>, Str(BotId) \o <<">">>}

RECURSIVE Texts(_)
Texts(n) == IF n = 0 THEN {<<>>}
            ELSE LET shorter == Texts(n - 1) IN
                 shorter \cup {t \o p : t \in shorter, p \in MessageParts}

\* the texts of SpecPayload, and the two texts of Spec
Contents == Texts(MaxParts)
SmallContents == {<<"a">>, mention_text \o <<" ", "a">>}

-----------------------------------------------------------------------------
(* on_message, lines 118-191                                               *)

\* A message event.  guild is NoGuild for a direct message; mentioned is the
\* value of bot.user.mentioned_in(message), which the library computes from
\* the message's mention list (it is also true for @everyone and reply
\* pings, and false for a token the platform did not resolve).
MessagesOver(texts) ==
    [author_bot : BOOLEAN, place : {<<NoGuild, DMChannelId>>} \cup BotPlaces,
     mentioned : BOOLEAN, content : texts]

Guild(m) == m.place[1]
Channel(m) == m.place[2]

NoMessage == [author_bot |-> FALSE, place |-> <<NoGuild, DMChannelId>>,
              mentioned |-> FALSE, content |-> <<>>]

\* entries of log
Post(url, payload, http) == [type |-> "post", url |-> url, payload |-> payload, http |-> http]
Send(text) == [type |-> "send", text |-> text]
ProcessCommands == [type |-> "process_commands"]

ConfigError == "Error: No webhook URL configured for this channel or globally"
DeliveryError == "Error sending message to webhook"

\* what requests.post can do: an HTTP response of some status, or a
\* requests.exceptions.RequestException
HttpOutcomes == {"2xx", "non2xx", "RequestException"}

\* the author check dropped
IgnoreAuthor_Never(m) == FALSE

\* lines 120-121
IgnoreAuthor(m) == m.author_bot

\* line 124
is_dm(m) == Guild(m) = NoGuild

\* line 125
is_mention(m) == m.mentioned

\* every message treated as a trigger
IsTrigger_Always(m, url) == TRUE

\* line 131, negated: the message is a routing trigger
IsTrigger(m, url) == is_dm(m) \/ is_mention(m) \/ url # None

\* the global URL preferred over the channel's
target_webhook_url_GlobalFirst(url) == IF WEBHOOK_URL # None THEN WEBHOOK_URL ELSE url

\* line 141
target_webhook_url(url) == IF url # None THEN url ELSE WEBHOOK_URL

\* the DM test made before the mention test
source_DmFirst(m) ==
    IF is_dm(m) THEN "dm" ELSE IF is_mention(m) THEN "mention" ELSE "channel_webhook_trigger"

\* the mention test left out
source_NoMention(m) ==
    IF is_dm(m) THEN "dm" ELSE "channel_webhook_trigger"

\* line 170
source(m) ==
    IF is_mention(m) THEN "mention" ELSE IF is_dm(m) THEN "dm" ELSE "channel_webhook_trigger"

\* lines 149-175, the fields that depend on the message text and its origin
payload(m) ==
    [content |-> clean_content(m.content),
     original_content |-> m.content,
     channel_id |-> Str(Channel(m)),
     guild_id |-> IF Guild(m) # NoGuild THEN Str(Guild(m)) ELSE <<>>,
     source |-> source(m)]

\* the misconfigured message dropped without a word
Misconfigured_Silent == <<ProcessCommands>>

\* lines 143-147
Misconfigured == <<Send(ConfigError), ProcessCommands>>

\* a second POST after a transport failure
Deliver_Retry(url, body, http) ==
    IF http = "RequestException"
    THEN <<Post(url, body, http), Post(url, body, http), Send(DeliveryError), ProcessCommands>>
    ELSE <<Post(url, body, http), ProcessCommands>>

\* a failure message for every response that is not a 2xx (the code that
\* lines 182-186 keep commented out)
Deliver_ReportsStatus(url, body, http) ==
    <<Post(url, body, http)>>
    \o (IF http # "2xx" THEN <<Send(DeliveryError)>> ELSE <<>>)
    \o <<ProcessCommands>>

\* a return after the failure message
Deliver_EarlyReturn(url, body, http) ==
    IF http = "RequestException"
    THEN <<Post(url, body, http), Send(DeliveryError)>>
    ELSE <<Post(url, body, http), ProcessCommands>>

\* lines 179-191
Deliver(url, body, http) ==
    <<Post(url, body, http)>>
    \o (IF http = "RequestException" THEN <<Send(DeliveryError)>> ELSE <<>>)
    \o <<ProcessCommands>>

\* lines 118-129, up to the await of get_channel_webhook: a new message event
\* is dispatched once the previous run has ended
on_message(msgs) ==
    /\ m_pc \in {"idle", "done", "raised"}
    /\ \E m \in msgs :
        /\ message' = m
        /\ log' = <<>>
        /\ channel_webhook_url' = None
        /\ m_pc' = IF IgnoreAuthor(m) THEN "done"
                   ELSE IF Guild(m) # NoGuild THEN "lookup"
                   ELSE "route"
    /\ UNCHANGED <<db, WEBHOOK_URL, store, cmdVars, storeVars>>

\* line 129: get_channel_webhook returns
on_message_lookup ==
    /\ m_pc = "lookup"
    /\ channel_webhook_url' = get_channel_webhook(store, Guild(message), Channel(message))
    /\ m_pc' = "route"
    /\ UNCHANGED <<db, WEBHOOK_URL, store, message, log, cmdVars, storeVars>>

\* line 129: the awaited ref.get() raises; on_message has no handler for it,
\* the exception leaves the task
on_message_lookup_raises ==
    /\ m_pc = "lookup"
    /\ db
    /\ m_pc' = "raised"
    /\ UNCHANGED <<db, WEBHOOK_URL, store, message, channel_webhook_url, log, cmdVars, storeVars>>

\* lines 131-191
on_message_route ==
    /\ m_pc = "route"
    /\ LET target == target_webhook_url(channel_webhook_url) IN
       IF ~IsTrigger(message, channel_webhook_url)
       THEN log' = <<ProcessCommands>>
       ELSE IF target = None
       THEN log' = Misconfigured
       ELSE \E http \in HttpOutcomes : log' = Deliver(target, payload(message), http)
    /\ m_pc' = "done"
    /\ UNCHANGED <<db, WEBHOOK_URL, store, message, channel_webhook_url, cmdVars, storeVars>>

\* log, read back
Posts == SelectSeq(log, LAMBDA e : e.type = "post")
Sends == SelectSeq(log, LAMBDA e : e.type = "send")
Handoffs == SelectSeq(log, LAMBDA e : e.type = "process_commands")

-----------------------------------------------------------------------------
(* Slash commands, lines 195-300, and the tree's error handler, 343-356    *)

Commands == {"setup", "remove", "list", "status"}

\* A command invocation.  place is <<NoGuild, DMChannelId>> when the command
\* is used in a direct message; manage_channels says whether the invoking
\* user holds that permission in the channel.
Interactions ==
    [command : Commands, place : {<<NoGuild, DMChannelId>>} \cup BotPlaces,
     manage_channels : BOOLEAN]

NoInteraction == [command |-> "status", place |-> <<NoGuild, DMChannelId>>,
                  manage_channels |-> FALSE]

\* an interaction.response.send_message call
Reply(text, detail, ephemeral) == [text |-> text, detail |-> detail, ephemeral |-> ephemeral]

\* lines 195-196, 223-224, 251-252: commands.has_permissions stores its
\* predicate in the callback's __commands_checks__, which only prefix
\* commands (ext.commands.Command) run.  bot.tree.command wraps the callback
\* in an app_commands.Command, whose checks come from
\* __discord_app_commands_checks__; that list is empty here, so the tree runs
\* no check before the callback, whatever the invoker's permissions.
has_permissions(i) == TRUE

\* lines 343-356
on_app_command_error(error) ==
    IF error = "MissingPermissions"
    THEN Reply("You don't have the required permissions to use this command", "manage_channels", TRUE)
    ELSE Reply("An unexpected error occurred while executing this command", "", TRUE)

\* the server check left out
Preconditions_NoGuildCheck(i) ==
    IF ~db THEN <<Reply("Database not initialized", "", TRUE)>> ELSE <<>>

\* lines 199-205, 227-233, 255-261, 280-286: the two checks every command
\* starts with; <<>> when both pass
Preconditions(i) ==
    IF ~db THEN <<Reply("Database not initialized", "", TRUE)>>
    ELSE IF i.place[1] = NoGuild THEN <<Reply("This command can only be used in a server", "", TRUE)>>
    ELSE <<>>

\* a new interaction is dispatched once the previous command has ended
Dispatch(i) ==
    /\ c_pc \in {"idle", "done"}
    /\ interaction' = i
    /\ existing_webhook' = None
    /\ UNCHANGED <<db, WEBHOOK_URL, store, msgVars, storeVars>>

\* the command ends with one reply and no store call
EndWith(reply) ==
    /\ replies' = <<reply>>
    /\ calls' = <<>>
    /\ c_pc' = "done"

\* the command calls a store helper and waits for it
Await(call, pc) ==
    /\ replies' = <<>>
    /\ calls' = <<call>>
    /\ c_pc' = pc

\* lines 197-212, up to the await of set_channel_webhook
setup ==
    \E i \in {j \in Interactions : j.command = "setup"} :
        /\ Dispatch(i)
        /\ IF ~has_permissions(i) THEN EndWith(on_app_command_error("MissingPermissions"))
           ELSE IF Preconditions(i) # <<>> THEN EndWith(Preconditions(i)[1])
           ELSE IF WEBHOOK_URL = None
           THEN EndWith(Reply("Error: Global WEBHOOK_URL is not configured", "", TRUE))
           ELSE Await("set_channel_webhook", "setup_set")

\* lines 212-221: set_channel_webhook returns
setup_set_step ==
    /\ c_pc = "setup_set"
    /\ LET r == set_channel_webhook(store, interaction.place[1], interaction.place[2], WEBHOOK_URL) IN
        /\ store' = r.store
        /\ replies' = IF r.result
                      THEN <<Reply("Successfully set up n8n webhook for this channel", "", FALSE)>>
                      ELSE <<Reply("Failed to set up webhook", "", TRUE)>>
    /\ c_pc' = "done"
    /\ UNCHANGED <<db, WEBHOOK_URL, interaction, existing_webhook, calls, msgVars>>

setup_set == setup_set_step /\ UNCHANGED storeVars

\* lines 225-235, up to the await of get_channel_webhook
remove ==
    \E i \in {j \in Interactions : j.command = "remove"} :
        /\ Dispatch(i)
        /\ IF ~has_permissions(i) THEN EndWith(on_app_command_error("MissingPermissions"))
           ELSE IF Preconditions(i) # <<>> THEN EndWith(Preconditions(i)[1])
           ELSE Await("get_channel_webhook", "remove_get")

\* lines 235-240: get_channel_webhook returns; up to the await of delete_channel_webhook
remove_get ==
    /\ c_pc = "remove_get"
    /\ LET url == get_channel_webhook(store, interaction.place[1], interaction.place[2]) IN
        /\ existing_webhook' = url
        /\ IF url = None
           THEN /\ replies' = <<Reply("No n8n webhook is set up for this channel", "", TRUE)>>
                /\ calls' = calls
                /\ c_pc' = "done"
           ELSE /\ replies' = replies
                /\ calls' = Append(calls, "delete_channel_webhook")
                /\ c_pc' = "remove_delete"
    /\ UNCHANGED <<db, WEBHOOK_URL, store, interaction, msgVars, storeVars>>

\* lines 240-249: delete_channel_webhook returns
remove_delete_step ==
    /\ c_pc = "remove_delete"
    /\ LET r == delete_channel_webhook(store, interaction.place[1], interaction.place[2]) IN
        /\ store' = r.store
        /\ replies' = IF r.result
                      THEN <<Reply("Successfully removed n8n webhook from this channel", "", FALSE)>>
                      ELSE <<Reply("Failed to remove webhook", "", TRUE)>>
    /\ c_pc' = "done"
    /\ UNCHANGED <<db, WEBHOOK_URL, interaction, existing_webhook, calls, msgVars>>

remove_delete == remove_delete_step /\ UNCHANGED storeVars

\* int() of a string of decimal digits
RECURSIVE Int_(_)
Int_(digits) ==
    IF digits = <<>> THEN 0
    ELSE 10 * Int_(SubSeq(digits, 1, Len(digits) - 1))
         + (CHOOSE d \in 0..9 : Digit(d) = digits[Len(digits)])

\* lines 269-273: one line of the list reply
ListLine(guild_id, webhook_data) ==
    LET channel_id == Int_(webhook_data.channel_id) IN
    [channel_id |-> channel_id,
     known |-> <<guild_id, channel_id>> \in Places,
     webhook_url |-> webhook_data.webhook_url]

\* lines 253-263, up to the await of get_all_guild_webhooks
list_webhooks ==
    \E i \in {j \in Interactions : j.command = "list"} :
        /\ Dispatch(i)
        /\ IF ~has_permissions(i) THEN EndWith(on_app_command_error("MissingPermissions"))
           ELSE IF Preconditions(i) # <<>> THEN EndWith(Preconditions(i)[1])
           ELSE Await("get_all_guild_webhooks", "list_query")

\* lines 263-275: get_all_guild_webhooks returns
list_query ==
    /\ c_pc = "list_query"
    /\ LET webhooks == get_all_guild_webhooks(store, interaction.place[1]) IN
       replies' = IF webhooks = {}
                  THEN <<Reply("No n8n webhooks are set up in this server", "", TRUE)>>
                  ELSE <<Reply("N8N Webhooks configured in this server",
                               {ListLine(interaction.place[1], w) : w \in webhooks}, TRUE)>>
    /\ c_pc' = "done"
    /\ UNCHANGED <<db, WEBHOOK_URL, store, interaction, existing_webhook, calls, msgVars, storeVars>>

\* lines 278-288, up to the await of get_channel_webhook; no permission decorator
status ==
    \E i \in {j \in Interactions : j.command = "status"} :
        /\ Dispatch(i)
        /\ IF Preconditions(i) # <<>> THEN EndWith(Preconditions(i)[1])
           ELSE Await("get_channel_webhook", "status_get")

\* a status that consumes the configuration it reports
status_get_Consumes ==
    /\ c_pc = "status_get"
    /\ LET webhook_url == get_channel_webhook(store, interaction.place[1], interaction.place[2]) IN
       replies' = IF webhook_url # None
                  THEN <<Reply("N8N webhook is ACTIVE for this channel", webhook_url, TRUE)>>
                  ELSE <<Reply("N8N webhook is INACTIVE for this channel", "", TRUE)>>
    /\ store' = delete_channel_webhook(store, interaction.place[1], interaction.place[2]).store
    /\ c_pc' = "done"
    /\ UNCHANGED <<db, WEBHOOK_URL, interaction, existing_webhook, calls, msgVars, storeVars>>

\* lines 288-300: get_channel_webhook returns
status_get ==
    /\ c_pc = "status_get"
    /\ LET webhook_url == get_channel_webhook(store, interaction.place[1], interaction.place[2]) IN
       replies' = IF webhook_url # None
                  THEN <<Reply("N8N webhook is ACTIVE for this channel", webhook_url, TRUE)>>
                  ELSE <<Reply("N8N webhook is INACTIVE for this channel", "", TRUE)>>
    /\ c_pc' = "done"
    /\ UNCHANGED <<db, WEBHOOK_URL, store, interaction, existing_webhook, calls, msgVars, storeVars>>

\* lines 212, 235, 240, 263, 288, then 351-356: the awaited Firestore call
\* raises.  The tree hands the exception to on_app_command_error.  A write
\* that raises may or may not have reached the collection.
store_call_raises_step(applied) ==
    /\ c_pc \in {"setup_set", "remove_get", "remove_delete", "list_query", "status_get"}
    /\ store' = IF applied /\ c_pc = "setup_set"
                THEN set_channel_webhook(store, interaction.place[1], interaction.place[2], WEBHOOK_URL).store
                ELSE IF applied /\ c_pc = "remove_delete"
                THEN delete_channel_webhook(store, interaction.place[1], interaction.place[2]).store
                ELSE store
    /\ replies' = Append(replies, on_app_command_error("CommandInvokeError"))
    /\ c_pc' = "done"
    /\ UNCHANGED <<db, WEBHOOK_URL, interaction, existing_webhook, calls, msgVars>>

store_call_raises ==
    \E applied \in BOOLEAN : store_call_raises_step(applied) /\ UNCHANGED storeVars

-----------------------------------------------------------------------------
(* The bot                                                                 *)

\* The state after the module has been loaded (lines 15-49): the Firestore
\* handle was obtained or not (27-40), WEBHOOK_URL is set or not (16), and
\* the collection is empty or holds what an earlier run left in it.
Init ==
    /\ db \in BOOLEAN
    /\ WEBHOOK_URL \in {None, GlobalURL}
    /\ store \in {EmptyStore, LegacyStore}
    /\ message = NoMessage
    /\ m_pc = "idle"
    /\ channel_webhook_url = None
    /\ log = <<>>
    /\ interaction = NoInteraction
    /\ c_pc = "idle"
    /\ existing_webhook = None
    /\ replies = <<>>
    /\ calls = <<>>
    /\ ret = [op |-> "none"]
    /\ expected = [p \in Places |-> [url |-> None, later |-> FALSE]]
    /\ history = HistoryOf(EmptyStore)

Next ==
    \/ on_message(MessagesOver(SmallContents))
    \/ on_message_lookup
    \/ on_message_lookup_raises
    \/ on_message_route
    \/ setup
    \/ setup_set
    \/ remove
    \/ remove_get
    \/ remove_delete
    \/ list_webhooks
    \/ list_query
    \/ status
    \/ status_get
    \/ store_call_raises

Spec == Init /\ [][Next]_vars

-----------------------------------------------------------------------------
(* The Firestore helpers on their own: any caller, any arguments           *)

\* expected[p].url is the URL of the last successful set on p, None after a
\* successful delete or when p was never set; later says whether another
\* key has been written or deleted since
Written(p, url) ==
    [q \in Places |-> IF q = p THEN [url |-> url, later |-> FALSE]
                      ELSE [url |-> expected[q].url, later |-> TRUE]]

call_set_channel_webhook ==
    \E p \in Places, u \in URLs :
        LET r == set_channel_webhook(store, p[1], p[2], u) IN
        /\ store' = r.store
        /\ ret' = [op |-> "set", arg |-> p, value |-> r.result]
        /\ expected' = IF r.result THEN Written(p, u) ELSE expected
        /\ UNCHANGED <<db, WEBHOOK_URL, history, msgVars, cmdVars>>

call_get_channel_webhook ==
    \E p \in Places :
        /\ ret' = [op |-> "get", arg |-> p, value |-> get_channel_webhook(store, p[1], p[2])]
        /\ UNCHANGED <<db, WEBHOOK_URL, store, expected, history, msgVars, cmdVars>>

call_delete_channel_webhook ==
    \E p \in Places :
        LET r == delete_channel_webhook(store, p[1], p[2]) IN
        /\ store' = r.store
        /\ ret' = [op |-> "delete", arg |-> p, value |-> r.result]
        /\ expected' = IF r.result THEN Written(p, None) ELSE expected
        /\ UNCHANGED <<db, WEBHOOK_URL, history, msgVars, cmdVars>>

call_get_all_guild_webhooks ==
    \E g \in GuildIds :
        /\ ret' = [op |-> "list", arg |-> <<g>>, value |-> get_all_guild_webhooks(store, g)]
        /\ UNCHANGED <<db, WEBHOOK_URL, store, expected, history, msgVars, cmdVars>>

InitStore ==
    /\ db \in BOOLEAN
    /\ WEBHOOK_URL \in {None, GlobalURL}
    /\ store = EmptyStore
    /\ message = NoMessage
    /\ m_pc = "idle"
    /\ channel_webhook_url = None
    /\ log = <<>>
    /\ interaction = NoInteraction
    /\ c_pc = "idle"
    /\ existing_webhook = None
    /\ replies = <<>>
    /\ calls = <<>>
    /\ ret = [op |-> "none"]
    /\ expected = [p \in Places |-> [url |-> None, later |-> FALSE]]
    /\ history = HistoryOf(EmptyStore)

NextStore ==
    \/ call_set_channel_webhook
    \/ call_get_channel_webhook
    \/ call_delete_channel_webhook
    \/ call_get_all_guild_webhooks

SpecStore == InitStore /\ [][NextStore]_vars

-----------------------------------------------------------------------------
(* on_message over many texts                                              *)

\* messages of human authors, sent directly or in one server channel
PayloadMessages ==
    {m \in MessagesOver(Contents) :
        ~m.author_bot /\ m.place \in {<<NoGuild, DMChannelId>>, <<1, 12>>}}

\* one message event per behaviour
first_message == m_pc = "idle" /\ on_message(PayloadMessages)

NextPayload ==
    \/ first_message
    \/ on_message_lookup
    \/ on_message_lookup_raises
    \/ on_message_route

SpecPayload == Init /\ [][NextPayload]_vars

-----------------------------------------------------------------------------
(* The slash commands, with what they wrote and what they reported         *)

\* sets counts the sets that reached the collection since the last delete
\* that did, as 0, 1 or "2 or more"
Recorded(p, reported, written) ==
    history' = [history EXCEPT ![p] =
                   [reported |-> reported, written |-> written,
                    sets |-> IF written = "delete" THEN 0
                             ELSE IF history[p].sets = 0 THEN 1 ELSE 2]]

\* setup_set, recorded: the write reached the collection and success was reported
setup_set_recorded ==
    /\ setup_set_step
    /\ Recorded(interaction.place, "setup", "set")
    /\ UNCHANGED <<ret, expected>>

\* remove_delete, recorded
remove_delete_recorded ==
    /\ remove_delete_step
    /\ Recorded(interaction.place, "remove", "delete")
    /\ UNCHANGED <<ret, expected>>

\* store_call_raises, recorded: no success is reported; a write that reached
\* the collection before the exception is recorded as written
store_call_raises_recorded ==
    \E applied \in BOOLEAN :
        /\ store_call_raises_step(applied)
        /\ IF applied /\ c_pc = "setup_set"
           THEN Recorded(interaction.place, history[interaction.place].reported, "set")
           ELSE IF applied /\ c_pc = "remove_delete"
           THEN Recorded(interaction.place, history[interaction.place].reported, "delete")
           ELSE history' = history
        /\ UNCHANGED <<ret, expected>>

\* Init, with the history of the collection the bot starts with
InitCommands ==
    /\ db \in BOOLEAN
    /\ WEBHOOK_URL \in {None, GlobalURL}
    /\ store \in {EmptyStore, LegacyStore}
    /\ message = NoMessage
    /\ m_pc = "idle"
    /\ channel_webhook_url = None
    /\ log = <<>>
    /\ interaction = NoInteraction
    /\ c_pc = "idle"
    /\ existing_webhook = None
    /\ replies = <<>>
    /\ calls = <<>>
    /\ ret = [op |-> "none"]
    /\ expected = [p \in Places |-> [url |-> None, later |-> FALSE]]
    /\ history = HistoryOf(store)

NextCommands ==
    \/ setup
    \/ setup_set_recorded
    \/ remove
    \/ remove_get
    \/ remove_delete_recorded
    \/ list_webhooks
    \/ list_query
    \/ status
    \/ status_get
    \/ store_call_raises_recorded

SpecCommands == InitCommands /\ [][NextCommands]_vars

-----------------------------------------------------------------------------
(* Routing properties of on_message, under Spec                            *)

\* the message being handled, as the properties name it
HumanAuthor == m_pc # "idle" /\ ~message.author_bot
ServerMessage == Guild(message) # NoGuild
DirectMessage == Guild(message) = NoGuild
Completed == m_pc = "done"

\* C1: a message whose author is a bot account causes no webhook POST (and
\* nothing else: no message to the channel, no command processing),
\* whether or not it is a DM, mentions the bot, comes from a configured
\* channel, or a global URL is set.
C1_BotAuthorNeverForwarded ==
    (m_pc # "idle" /\ message.author_bot) => log = <<>>

\* a completed run for a bot-authored mention in the configured channel
C1_Witness ==
    /\ Completed /\ message.author_bot /\ message.mentioned
    /\ message.place = <<1, 12>>
    /\ get_channel_webhook(store, 1, 12) = LegacyURL
    /\ WEBHOOK_URL = GlobalURL

\* C2, as stated: every completed run for a server message of a human
\* author that mentions the bot has made a POST whose payload names the
\* reason "mention".
C2_MentionAlwaysForwarded ==
    (Completed /\ HumanAuthor /\ ServerMessage /\ message.mentioned)
        => (Len(Posts) = 1 /\ Posts[1].payload.source = "mention")

\* C2, amended: every completed run for a server message of a human author
\* that mentions the bot, where the lookup returned a per-channel URL or a
\* global URL is set, has made exactly one POST whose payload names the
\* reason "mention"; when neither URL exists no POST is made.
C2_MentionForwardedWhenRoutable ==
    (Completed /\ HumanAuthor /\ ServerMessage /\ message.mentioned)
        => IF channel_webhook_url # None \/ WEBHOOK_URL # None
           THEN Len(Posts) = 1 /\ Posts[1].payload.source = "mention"
           ELSE Posts = <<>>

\* a mention in the configured channel, forwarded with reason "mention"
C2_Witness ==
    /\ Completed /\ HumanAuthor /\ message.mentioned
    /\ message.place = <<1, 12>>
    /\ channel_webhook_url = LegacyURL
    /\ Len(Posts) = 1 /\ Posts[1].payload.source = "mention"

\* C3: every POST goes to the per-channel URL the lookup returned when it
\* returned one, and to the global URL otherwise; a POST triggered by the
\* channel's configuration alone goes to the channel's URL.
C3_DestinationPrefersChannel ==
    \A i \in 1..Len(Posts) :
        /\ Posts[i].url # None
        /\ channel_webhook_url # None => Posts[i].url = channel_webhook_url
        /\ channel_webhook_url = None => Posts[i].url = WEBHOOK_URL
        /\ Posts[i].payload.source = "channel_webhook_trigger"
              => (ServerMessage /\ Posts[i].url = channel_webhook_url)

\* a plain message in the channel configured with h1, global URL g, POSTed to h1
C3_Witness ==
    /\ Completed /\ HumanAuthor /\ ~message.mentioned
    /\ message.place = <<1, 12>>
    /\ WEBHOOK_URL = GlobalURL
    /\ Len(Posts) = 1
    /\ Posts[1].url = LegacyURL
    /\ Posts[1].payload.source = "channel_webhook_trigger"

C5_PlainMessageOnlyCommands ==
    (HumanAuthor /\ ServerMessage /\ ~message.mentioned /\ channel_webhook_url = None)
        => /\ Posts = <<>> /\ Sends = <<>>
           /\ Completed => log = <<ProcessCommands>>

\* a plain message in an unconfigured channel while a global URL is set
C5_Witness ==
    /\ Completed /\ HumanAuthor /\ ServerMessage /\ ~message.mentioned
    /\ channel_webhook_url = None
    /\ WEBHOOK_URL = GlobalURL
    /\ log = <<ProcessCommands>>

\* C6: a completed run for a DM or a mention of a human author, where the
\* lookup returned no per-channel URL and no global URL is set, has made
\* no POST and has sent the configuration error to the channel exactly
\* once.
C6_MisconfiguredReported ==
    (Completed /\ HumanAuthor /\ (DirectMessage \/ message.mentioned)
        /\ channel_webhook_url = None /\ WEBHOOK_URL = None)
        => /\ Posts = <<>>
           /\ Sends = <<Send(ConfigError)>>

\* a server mention with neither URL, answered with the configuration error
C6_Witness ==
    /\ Completed /\ HumanAuthor /\ ServerMessage /\ message.mentioned
    /\ channel_webhook_url = None /\ WEBHOOK_URL = None
    /\ Sends = <<Send(ConfigError)>>

-----------------------------------------------------------------------------
(* The configuration store, under SpecStore                                *)

\* C7: with the Firestore handle available, get_channel_webhook(S, C)
\* returns the URL of the last set on (S, C), and None when the last write
\* on (S, C) was a delete (or there was none), whatever sets and deletes of
\* other keys happened since.
C7_GetReturnsLastWrite ==
    (db /\ ret.op = "get") => ret.value = expected[ret.arg].url

\* get(1, 12) returns the URL it was set to, after a write under key (11, 2),
\* whose digits are the same
C7_Witness ==
    /\ db /\ ret.op = "get" /\ ret.arg = <<1, 12>>
    /\ ret.value = LegacyURL
    /\ expected[<<1, 12>>].later
    /\ expected[<<11, 2>>].url = GlobalURL

\* C8: get_all_guild_webhooks(S) returns exactly the documents of the
\* channels of S that are currently set: each of them, and no document of
\* another server.
C8_ListIsTheGuildsConfigs ==
    (db /\ ret.op = "list")
        => ret.value = {WebhookDoc(p[1], p[2], expected[p].url) :
                           p \in {q \in Places : q[1] = ret.arg[1] /\ expected[q].url # None}}

\* both channels of guild 1 listed while guild 11 has a configuration too
C8_Witness ==
    /\ db /\ ret.op = "list" /\ ret.arg = <<1>>
    /\ Cardinality(ret.value) = 2
    /\ expected[<<11, 2>>].url # None

-----------------------------------------------------------------------------
(* The payload text, under SpecPayload                                     *)

\* where the bot's mention token occurs in a text; two occurrences cannot overlap
Occurrences(text) ==
    {i \in 1..Len(text) : i + Len(mention_text) - 1 <= Len(text)
                          /\ SubSeq(text, i, i + Len(mention_text) - 1) = mention_text}

CountOf(token, text) ==
    Cardinality({i \in 1..Len(text) : i + Len(token) - 1 <= Len(text)
                                      /\ SubSeq(text, i, i + Len(token) - 1) = token})

\* the text without the characters at the given positions
Without(text, positions) ==
    LET kept == {j \in 1..Len(text) : j \notin positions} IN
    [k \in 1..Cardinality(kept) |->
        text[CHOOSE j \in kept : Cardinality({x \in kept : x <= j}) = k]]

Span(i) == i..(i + Len(mention_text) - 1)

\* t is s without its leading and trailing blanks
IsTrimOf(t, s) ==
    /\ t = <<>> \/ (t[1] # " " /\ t[Len(t)] # " ")
    /\ \E i \in 1..(Len(s) + 1), j \in 0..Len(s) :
        /\ t = SubSeq(s, i, j)
        /\ \A x \in 1..(i - 1) : s[x] = " "
        /\ \A x \in (j + 1)..Len(s) : s[x] = " "

\* C9, as stated (the spec's scenario trims "<@BOT> hello" to "hello", so
\* the comparison is up to outer blanks): the payload's content is the text
\* with exactly one occurrence of the bot's token removed, and the text
\* itself when it has none; original_content is the text.
C9_ExactlyOneTokenRemoved ==
    \A n \in 1..Len(Posts) :
        LET body == Posts[n].payload
            text == message.content IN
        /\ body.original_content = text
        /\ IF Occurrences(text) = {}
           THEN IsTrimOf(body.content, text)
           ELSE \E i \in Occurrences(text) : IsTrimOf(body.content, Without(text, Span(i)))

\* C9, amended: the payload's content is the text with every occurrence of
\* the bot's literal token <@id> removed and then the leading and trailing
\* blanks removed; every other user's token of the text is still in it;
\* original_content is the untouched text.
C9_EveryTokenRemoved ==
    \A n \in 1..Len(Posts) :
        LET body == Posts[n].payload
            text == message.content IN
        /\ body.original_content = text
        /\ IsTrimOf(body.content, Without(text, UNION {Span(i) : i \in Occurrences(text)}))
        /\ CountOf(OtherMention, body.content) >= CountOf(OtherMention, text)

\* a forwarded text with the bot's token twice and another user's token
C9_Witness ==
    /\ Len(Posts) = 1
    /\ Cardinality(Occurrences(message.content)) = 2
    /\ CountOf(OtherMention, message.content) = 1
    /\ Posts[1].payload.content = OtherMention

-----------------------------------------------------------------------------
(* The permission gate of the commands, under Spec                         *)

\* C10: setup, remove and list call the store only for an invoker who holds
\* manage_channels; for an invoker without it no store helper is called.
C10_PermissionGate ==
    (c_pc # "idle" /\ interaction.command \in {"setup", "remove", "list"}
        /\ ~interaction.manage_channels)
        => calls = <<>>

-----------------------------------------------------------------------------
(* The commands' preconditions, under Spec                                 *)

\* C11: a command (setup, remove, list or status) invoked while db is None
\* or outside a server calls no store helper and has exactly one reply, an
\* ephemeral error: "Database not initialized" without db, the server-only
\* message otherwise.
C11_NoStoreCallWithoutDbOrGuild ==
    (c_pc # "idle" /\ (~db \/ interaction.place[1] = NoGuild))
        => /\ calls = <<>>
           /\ c_pc = "done"
           /\ Len(replies) = 1
           /\ replies[1].ephemeral
           /\ replies[1].text = (IF ~db THEN "Database not initialized"
                                 ELSE "This command can only be used in a server")

\* setup used in a direct message while db and the global URL are available
C11_Witness ==
    /\ c_pc = "done" /\ db /\ WEBHOOK_URL = GlobalURL
    /\ interaction.command = "setup"
    /\ interaction.place[1] = NoGuild
    /\ calls = <<>>
    /\ replies[1].text = "This command can only be used in a server"

-----------------------------------------------------------------------------
(* Forwarding without the store, under Spec                                *)

\* C12: while db is None and a global URL is set, every completed run for a
\* DM or a mention of a human author has made one POST, to the global URL,
\* and every completed run for a plain server message has made none, also
\* when the collection holds a configuration for the channel.
C12_DegradedForwarding ==
    (~db /\ WEBHOOK_URL # None /\ Completed /\ HumanAuthor)
        => IF DirectMessage \/ message.mentioned
           THEN Len(Posts) = 1 /\ Posts[1].url = WEBHOOK_URL
           ELSE Posts = <<>>

\* a plain message in the channel the collection has a document for, not forwarded
C12_Witness ==
    /\ ~db /\ WEBHOOK_URL = GlobalURL /\ store = LegacyStore
    /\ Completed /\ HumanAuthor /\ ~message.mentioned
    /\ message.place = <<1, 12>>
    /\ log = <<ProcessCommands>>

-----------------------------------------------------------------------------
(* Delivery, under Spec                                                    *)

\* C13: in a run that made a POST, a message is sent to the channel exactly
\* when the POST raised a transport exception, and it is the delivery
\* error; after any HTTP response, 2xx or not, nothing is sent.
C13_ErrorOnlyOnTransportFailure ==
    \A i \in 1..Len(Posts) :
        IF Posts[i].http = "RequestException"
        THEN Sends = <<Send(DeliveryError)>>
        ELSE Sends = <<>>

\* a POST answered with a non-2xx status, and nothing said to the user
C13_Witness ==
    /\ Completed /\ Len(Posts) = 1
    /\ Posts[1].http = "non2xx"
    /\ Sends = <<>>

\* C14: the run for one message event makes at most one POST, also when
\* the POST fails.
C14_AtMostOnePost ==
    Len(Posts) <= 1

\* a completed run whose only POST raised
C14_Witness ==
    /\ Completed /\ Len(Posts) = 1
    /\ Posts[1].http = "RequestException"
    /\ Sends = <<Send(DeliveryError)>>

\* C15: a failure raised inside a task ends with a message to the user: a
\* run of on_message that an exception left has sent a message to the
\* channel, a POST that raised is followed by the delivery error, and a
\* command whose store call raised has replied.
C15_EveryFailureReported ==
    /\ m_pc = "raised" => Sends # <<>>
    /\ \A i \in 1..Len(Posts) :
          Posts[i].http = "RequestException" => Sends = <<Send(DeliveryError)>>
    /\ (c_pc = "done" /\ calls # <<>>) => replies # <<>>

\* C19: a completed run for a message of a human author has handed the
\* message to command processing exactly once, and as the last thing it
\* did: after the POST attempt and after any message to the channel.
C19_HandoffOnceAndLast ==
    (Completed /\ HumanAuthor)
        => /\ Len(Handoffs) = 1
           /\ log[Len(log)] = ProcessCommands

\* the hand-off after a failed POST and its error message
C19_Witness ==
    /\ Completed /\ HumanAuthor
    /\ Len(log) = 3
    /\ log[1].type = "post" /\ log[1].http = "RequestException"
    /\ log[2] = Send(DeliveryError)
    /\ log[3] = ProcessCommands

-----------------------------------------------------------------------------
(* The configurations the commands leave, under SpecCommands               *)

\* the documents of the collection that configure channel p
ConfigKeys(p) ==
    {k \in DOMAIN store : store[k].guild_id = Str(p[1]) /\ store[k].channel_id = Str(p[2])}

\* C16, as stated: the collection holds at most one configuration per
\* (guild, channel), and holds one exactly when the last setup or remove on
\* the pair that reported success was a setup.
C16_ConfigIffLastSuccessWasSetup ==
    \A p \in Places :
        /\ Cardinality(ConfigKeys(p)) <= 1
        /\ ConfigKeys(p) # {} <=> history[p].reported = "setup"

\* C16, amended: the collection holds at most one configuration per
\* (guild, channel), and holds one exactly when the last setup or remove on
\* the pair whose write reached the collection was a setup, whether the
\* command then reported success or ended with the unexpected-error reply;
\* a setup on a configured channel replaces the document.
C16_ConfigIffLastWriteWasSet ==
    \A p \in Places :
        /\ Cardinality(ConfigKeys(p)) <= 1
        /\ ConfigKeys(p) # {} <=> history[p].written = "set"
        /\ \A k \in ConfigKeys(p) : k = Str(p[1]) \o <<"-">> \o Str(p[2])

\* a setup on the channel that was already configured: still one document,
\* now with the global URL
C16_Witness ==
    /\ c_pc = "done" /\ interaction.command = "setup" /\ interaction.place = <<1, 12>>
    /\ history[<<1, 12>>].sets = 2
    /\ history[<<1, 12>>].reported = "setup"
    /\ Cardinality(ConfigKeys(<<1, 12>>)) = 1
    /\ \A k \in ConfigKeys(<<1, 12>>) : store[k].webhook_url = GlobalURL

-----------------------------------------------------------------------------
(* What setup writes, what remove ends, and who writes at all, under Spec   *)

\* the key of channel p's document, f"{guild_id}-{channel_id}"
KeyOf(p) == Str(p[1]) \o <<"-">> \o Str(p[2])

\* the command that has just ended, with its one reply
Ended(command, text) ==
    /\ c_pc = "done"
    /\ interaction.command = command
    /\ Len(replies) = 1
    /\ replies[1].text = text

\* C17: a setup that reports success in channel C of server S has written
\* exactly the record {webhook_url: global URL, guild_id: S, channel_id: C}
\* under the key of (S, C) and has left every other record as it was; when
\* the global URL is not set, setup ends with one ephemeral error reply, has
\* called no store helper and leaves the store unchanged.
C17_SetupPersistsGlobalURL ==
    [][/\ (c_pc = "setup_set" /\ Ended("setup", "Successfully set up n8n webhook for this channel")')
            => /\ WEBHOOK_URL # None
               /\ DOMAIN store' = DOMAIN store \cup {KeyOf(interaction.place)}
               /\ store'[KeyOf(interaction.place)] =
                      [webhook_url |-> WEBHOOK_URL,
                       guild_id |-> Str(interaction.place[1]),
                       channel_id |-> Str(interaction.place[2])]
               /\ \A k \in DOMAIN store \ {KeyOf(interaction.place)} : store'[k] = store[k]
       /\ (WEBHOOK_URL = None /\ interaction'.command = "setup" /\ c_pc' # "idle")
            => /\ store' = store
               /\ c_pc' = "done"
               /\ calls' = <<>>
               /\ Len(replies') = 1 /\ replies'[1].ephemeral
               /\ (db /\ interaction'.place[1] # NoGuild)
                    => replies'[1].text = "Error: Global WEBHOOK_URL is not configured"
      ]_vars

\* a successful setup in channel 2 of server 11, on a store that held the
\* older record of another channel
C17_Witness ==
    /\ Ended("setup", "Successfully set up n8n webhook for this channel")
    /\ interaction.place = <<11, 2>>
    /\ DOMAIN store = {<<"1", "-", "1", "2">>, <<"1", "1", "-", "2">>}
    /\ store[<<"1", "1", "-", "2">>] =
           [webhook_url |-> GlobalURL, guild_id |-> <<"1", "1">>, channel_id |-> <<"2">>]
    /\ store[<<"1", "-", "1", "2">>].webhook_url = LegacyURL

\* a plain message: of a server channel, by a human, not mentioning the bot
PlainMessage == HumanAuthor /\ ServerMessage /\ ~message.mentioned

\* remove has sent its success confirmation for channel p, and no command
\* has been invoked since
RemoveConfirmed(p) ==
    Ended("remove", "Successfully removed n8n webhook from this channel") /\ interaction.place = p

\* C18, as stated: once remove has sent its success confirmation for a
\* channel, a handler of a plain message of that channel that now goes on
\* from its lookup makes no POST.
C18_NoPostAfterRemoveConfirmed ==
    [][(RemoveConfirmed(message.place) /\ PlainMessage /\ m_pc = "route" /\ m_pc' = "done")
            => Posts' = <<>>]_vars

\* C18, amended: once remove has sent its success confirmation for a
\* channel, a handler that looks the channel up finds no configuration, and
\* a handler of a plain message that found none makes no POST; only a
\* handler that had read the configuration before the delete, and was
\* suspended between its lookup and its POST, still forwards its message.
C18_NoPostForLookupAfterRemove ==
    [][/\ (RemoveConfirmed(message.place) /\ m_pc = "lookup" /\ m_pc' = "route")
            => channel_webhook_url' = None
       /\ (PlainMessage /\ m_pc = "route" /\ channel_webhook_url = None /\ m_pc' = "done")
            => Posts' = <<>>
      ]_vars

\* no global URL, so no setup has written: the record removed is the older
\* one, and the plain message that found nothing was looked up after the delete
C18_Witness ==
    /\ WEBHOOK_URL = None
    /\ RemoveConfirmed(<<1, 12>>)
    /\ message.place = <<1, 12>>
    /\ PlainMessage /\ Completed
    /\ channel_webhook_url = None
    /\ log = <<ProcessCommands>>

\* C20: a step changes the store only if it is setup's or remove's write
\* returning or raising; no step of status, list or on_message does.  A
\* remove on a channel without configuration leaves the store unchanged and
\* replies that no webhook is set up (or, when its lookup raised, with the
\* error handler's reply).
C20_OnlySetupAndRemoveWrite ==
    [][/\ store' # store
            => /\ c_pc \in {"setup_set", "remove_delete"}
               /\ interaction.command \in {"setup", "remove"}
               /\ UNCHANGED msgVars
       /\ (c_pc = "remove_get" /\ c_pc' = "done" /\ KeyOf(interaction.place) \notin DOMAIN store)
            => /\ store' = store
               /\ calls' = <<"get_channel_webhook">>
               /\ \/ replies' = <<Reply("No n8n webhook is set up for this channel", "", TRUE)>>
                  \/ replies' = <<on_app_command_error("CommandInvokeError")>>
      ]_vars

\* a remove on a channel that was never configured, next to another
\* channel's record, which stays
C20_Witness ==
    /\ Ended("remove", "No n8n webhook is set up for this channel")
    /\ interaction.place = <<11, 2>>
    /\ calls = <<"get_channel_webhook">>
    /\ store = LegacyStore

====
